---------------------------- MODULE Spec2Model ----------------------------
(***************************************************************************)
(* Model of the workflow state store of the Instagram-to-Bluesky migrator  *)
(* (webui/src/app/services/migration-state.service.ts): the                *)
(* BehaviorSubject holding the MigrationState, the step-data cache, the    *)
(* public state$ stream with its distinctUntilChanged filter, and the      *)
(* store operations.                                                       *)
(***************************************************************************)
EXTENDS Integers, Sequences, FiniteSets, TLC

VARIABLES
    state,          \* stateSubject.value : the current MigrationState
    stepDataCache,  \* Map<number, any>, the cache consulted by updateStepData
    obs,            \* the subscriptions to state$ and to the views made of it
    observers,      \* stateSubject.observers : the subscribed, in the order
                    \* they subscribed, which is the order next() serves them
    received,       \* the values the observers' callbacks got during the
                    \* call made last, in order: <<observer, n>> is the
                    \* n-th commit of the call (0: the value replayed)
    ctl,            \* the fields of the step components (the controllers)
    progressSubject,\* progressSubject.value : the current MigrationProgress
    runs,           \* the calls of startMigration in flight: their posts,
                    \* the loop index i, and which service calls were made
                    \* since they started
    emitted,        \* the snapshots progressSubject.next got during the
                    \* call made last, in order
    instagramPosts, \* the posts the caller of filterPostsByDate holds
    dateRange,      \* the startDate and endDate the caller chose
    filtered,       \* what filterPostsByDate returned to the caller
    op              \* the store call made last and what it did

storeVars == <<state, stepDataCache, obs, observers, received, ctl>>
progressVars == <<progressSubject, runs, emitted>>
instagramVars == <<instagramPosts, dateRange, filtered>>
vars == <<state, stepDataCache, obs, observers, received, ctl,
          progressSubject, runs, emitted,
          instagramPosts, dateRange, filtered, op>>

----------------------------------------------------------------------------
(* Bounds of the model *)

\* number of distinct messages the callers report in SpecMsgs
MaxMsgs == 2
\* calls of the execution component's startMigration waiting for the
\* progress service at once
MaxAwaiting == 2
\* posts handed to one startMigration call in SpecProgress
MaxPosts == 2
\* the last step the callers complete in SpecObs
MaxWorkStep == 1

----------------------------------------------------------------------------
(* The data model *)

NumSteps == 5
StepIds == <<"content-upload", "bluesky-auth", "migration-config",
             "migration-execution", "completion">>
StepIndex == 0..(NumSteps - 1)

\* Payload values (the `any` step data).  A payload is null, undefined,
\* NaN, or a plain object: an ordered list of <<key, value>> pairs, where
\* a value is "1", "2" or "undefined".
Null  == [t |-> "null", kv |-> <<>>]
Undef == [t |-> "undefined", kv |-> <<>>]
NaN   == [t |-> "NaN", kv |-> <<>>]
Obj(kv) == [t |-> "object", kv |-> kv]
ObjAB == Obj(<< <<"a", "1">>, <<"b", "2">> >>)
ObjBA == Obj(<< <<"b", "2">>, <<"a", "1">> >>)

\* A step-shaped payload, as the tests of updateStepData pass it: an
\* object with the members of a StepState, its data member the object
\* { files: ['test.json'] }, written by the name of its definition here;
\* the other members are written by their JSON text.
StepData == Obj(<< <<"files", "1">> >>)
StepPayload(i) ==
    Obj(<< <<"id", StepIds[i + 1]>>, <<"completed", "false">>,
           <<"data", "StepData">>, <<"progress", "0">>,
           <<"errors", "[]">>, <<"warnings", "[]">> >>)

\* payload[key] of an object that has the member
member(payload, key) ==
    LET k == CHOOSE k \in 1..Len(payload.kv) : payload.kv[k][1] = key
    IN  payload.kv[k][2]

\* whether a payload has the members of a StepState
isStepShaped(payload) ==
    /\ payload.t = "object"
    /\ {payload.kv[k][1] : k \in 1..Len(payload.kv)}
            = {"id", "completed", "data", "progress", "errors", "warnings"}

\* Map.get on a key without entry
NoEntry == [t |-> "no entry", kv |-> <<>>]

\* JSON.stringify of a payload: a text (a sequence of tokens), or the
\* value undefined for the payload undefined.  Keys are written in the
\* object's own order; a key whose value is undefined is left out; NaN is
\* written as null.
RECURSIVE MemberTokens(_)
MemberTokens(kv) ==
    IF kv = <<>> THEN <<>>
    ELSE IF kv[1][2] = "undefined" THEN MemberTokens(Tail(kv))
    ELSE << kv[1][1], ":", kv[1][2], "," >> \o MemberTokens(Tail(kv))

JSONstringify(v) ==
    CASE v.t = "undefined" -> [defined |-> FALSE, text |-> <<>>]
      [] v.t = "null"      -> [defined |-> TRUE, text |-> <<"null">>]
      [] v.t = "NaN"       -> [defined |-> TRUE, text |-> <<"null">>]
      [] OTHER             -> [defined |-> TRUE,
                               text |-> <<"{">> \o MemberTokens(v.kv) \o <<"}">>]

\* JSON.stringify of a whole MigrationState.  Every field but the step
\* data is a scalar, a list of strings or a fixed literal, written in the
\* fixed key order of the object literals of getInitialState; the step
\* data is written by JSONstringify, and left out when undefined.
JSONstringifyState(st) ==
    [currentStep |-> st.currentStep,
     steps |-> [i \in DOMAIN st.steps |->
        [id |-> st.steps[i].id,
         completed |-> st.steps[i].completed,
         data |-> JSONstringify(st.steps[i].data),
         errors |-> st.steps[i].errors,
         warnings |-> st.steps[i].warnings,
         progress |-> st.steps[i].progress]],
     instagramData |-> st.instagramData,
     processedPosts |-> st.processedPosts,
     blueskyClient |-> st.blueskyClient,
     migrationConfig |-> st.migrationConfig,
     progress |-> st.progress,
     errors |-> st.errors]

\* The strict inequality `stored !== data` of updateStepData.  An object
\* payload is a fresh object of its caller, a reference the stored state
\* cannot hold (a reference passed before is found in the cache first);
\* primitives compare by value, and NaN differs from everything.
StrictNotEqual(stored, data) ==
    IF data.t \in {"object", "NaN"} THEN TRUE ELSE stored # data

\* Structural (deep) equality of payloads and of states, as toEqual sees
\* them: the same keys with the same values, in any order
PairSet(kv) == {kv[k] : k \in 1..Len(kv)}
DeepEqual(x, y) ==
    /\ x.t = y.t
    /\ PairSet(x.kv) = PairSet(y.kv)
DeepEqualState(s, t) ==
    /\ s.currentStep = t.currentStep
    /\ \A i \in StepIndex :
          /\ [s.steps[i] EXCEPT !.data = Null] = [t.steps[i] EXCEPT !.data = Null]
          /\ DeepEqual(s.steps[i].data, t.steps[i].data)
    /\ [s EXCEPT !.currentStep = 0, !.steps = <<>>]
         = [t EXCEPT !.currentStep = 0, !.steps = <<>>]

getInitialState ==
    [currentStep |-> 0,
     steps |-> [i \in StepIndex |->
        [id |-> StepIds[i + 1], completed |-> FALSE, data |-> Null,
         errors |-> <<>>, warnings |-> <<>>, progress |-> 0]],
     instagramData |-> <<>>,
     processedPosts |-> <<>>,
     blueskyClient |-> "null",
     migrationConfig |->
        [includeLikes |-> TRUE, includeComments |-> TRUE,
         dateRange |-> [start |-> "null", end |-> "null"],
         mediaQuality |-> "medium", batchSize |-> 10],
     progress |->
        [currentPost |-> 0, totalPosts |-> 0, currentMedia |-> 0,
         totalMedia |-> 0, status |-> "idle", estimatedTimeRemaining |-> "0m"],
     errors |-> <<>>]

----------------------------------------------------------------------------
(* The state$ stream *)

\* the observers of state$ whose callbacks only read the snapshot
Observers == {"stepper"}
\* the observer of state$ whose callback writes to the store
CompletionObserver == "completion"
\* the observers of the views currentStep$ and stepCompletion$
ViewObservers == {"currentStep", "stepCompletion"}
\* the step components that keep fields of their own, observers of
\* state$ each
Components == {"upload", "auth", "execution"}
AllObservers ==
    Observers \cup {CompletionObserver} \cup ViewObservers \cup Components

\* state.steps[2]?.data?.config
hasConfig(data) ==
    /\ data.t = "object"
    /\ \E k \in 1..Len(data.kv) :
          data.kv[k][1] = "config" /\ data.kv[k][2] # "undefined"

\* The callback a step component gives to state$.subscribe: it copies
\* fields of its step from the snapshot
componentCallback(c, fields, snapshot) ==
    CASE c = "upload" ->
            [fields EXCEPT !.isStepCompleted = snapshot.steps[0].completed,
                           !.errors = snapshot.steps[0].errors,
                           !.warnings = snapshot.steps[0].warnings]
      [] c = "auth" ->
            [fields EXCEPT !.isStepCompleted = snapshot.steps[1].completed,
                           !.errors = snapshot.steps[1].errors,
                           !.isAuthenticated =
                                IF snapshot.blueskyClient # "null" THEN TRUE ELSE @]
      [] c = "execution" ->
            [fields EXCEPT !.isStepCompleted = snapshot.steps[3].completed,
                           !.errors = snapshot.steps[3].errors,
                           !.warnings = snapshot.steps[3].warnings,
                           !.hasPosts =
                                IF hasConfig(snapshot.steps[2].data) THEN TRUE ELSE @]
      [] OTHER -> fields

\* The stepper component (MigrationStepperComponent).  The original one
\* subscribes to state$; the optimized one to currentStep$, stepCompletion$
\* and state$, in this order.  variant is "none" before ngOnInit.
StepperComponent == "migration-stepper"
StepperVariants == {"original", "optimized"}
StepperSubscriptions(variant) ==
    CASE variant = "original"  -> <<"stepper">>
      [] variant = "optimized" -> <<"currentStep", "stepCompletion", "stepper">>
      [] OTHER -> <<>>
StepperFields ==
    [variant |-> "none", migrationState |-> <<>>, currentStepIndex |-> 0,
     canProceed |-> FALSE, canGoBack |-> FALSE]

\* canProceedToNext of the stepper: it reads the snapshot the component
\* keeps, at the index the component keeps
canProceedToNext(fields) ==
    IF fields.migrationState = <<>> THEN FALSE
    ELSE IF fields.currentStepIndex \in DOMAIN fields.migrationState.steps
    THEN fields.migrationState.steps[fields.currentStepIndex].completed
    ELSE FALSE

canGoBackToPrevious(fields) == fields.currentStepIndex > 0

\* updateNavigationState (its getCurrentState() is read and not used), and
\* the two assignments of the original callback
updateNavigationState(fields) ==
    [fields EXCEPT !.canProceed = canProceedToNext(fields),
                   !.canGoBack = canGoBackToPrevious(fields)]

\* the callbacks the stepper gives to its subscriptions
stepperCallback(fields, o, snapshot) ==
    CASE fields.variant = "original" /\ o = "stepper" ->
            updateNavigationState(
                [fields EXCEPT !.migrationState = snapshot,
                               !.currentStepIndex = snapshot.currentStep])
      [] fields.variant = "optimized" /\ o = "currentStep" ->
            IF fields.currentStepIndex # snapshot.currentStep
            THEN updateNavigationState(
                    [fields EXCEPT !.currentStepIndex = snapshot.currentStep])
            ELSE fields
      [] fields.variant = "optimized" /\ o = "stepCompletion" ->
            updateNavigationState(fields)
      [] fields.variant = "optimized" /\ o = "stepper" ->
            IF \/ fields.migrationState = <<>>
               \/ fields.migrationState.currentStep # snapshot.currentStep
            THEN updateNavigationState(
                    [fields EXCEPT !.migrationState = snapshot,
                                   !.currentStepIndex = snapshot.currentStep])
            ELSE fields
      [] OTHER -> fields

\* the callbacks of the stepper for one value, served in the order of the
\* list
RECURSIVE stepperServe(_, _, _)
stepperServe(fields, list, snapshot) ==
    IF list = <<>> THEN fields
    ELSE stepperServe(stepperCallback(fields, Head(list), snapshot),
                      Tail(list), snapshot)

\* the fields of the step components as their field initialisers set them
InitialFields ==
    [c \in Components \cup {StepperComponent} |->
        CASE c = StepperComponent -> StepperFields
          [] c = "upload" ->
                [isStepCompleted |-> FALSE, isProcessing |-> FALSE,
                 errors |-> <<>>, warnings |-> <<>>]
          [] c = "auth" ->
                [isStepCompleted |-> FALSE, isAuthenticated |-> FALSE,
                 isAuthenticating |-> FALSE, loadingAccountInfo |-> FALSE,
                 errors |-> <<>>]
          [] OTHER ->
                [isStepCompleted |-> FALSE, isMigrationRunning |-> FALSE,
                 isMigrationPaused |-> FALSE, hasPosts |-> FALSE,
                 errors |-> <<>>, warnings |-> <<>>,
                 \* the calls of startMigration waiting for the service,
                 \* and how many of them cancelMigration was called on
                 awaiting |-> 0, cancelled |-> 0]]

\* a stream without the distinctUntilChanged filter
stateUnchanged_Never(prev, curr) == FALSE

\* The comparator of distinctUntilChanged on state$
stateUnchanged(prev, curr) ==
    /\ prev.currentStep = curr.currentStep
    /\ \A i \in StepIndex : prev.steps[i].completed = curr.steps[i].completed

\* A subscription to state$: whether it is active, and the value its
\* distinctUntilChanged passed last (the snapshot the observer got last);
\* without subscription there is no such value
NoSubscription == [subscribed |-> FALSE, last |-> <<>>]

\* The distinctUntilChanged() of currentStep$: two numbers compared by ===
currentStepUnchanged(prev, curr) == prev.currentStep = curr.currentStep

\* The distinctUntilChanged() of stepCompletion$: two arrays compared by
\* ===, each made by its own call of steps.map, so never the same array
stepCompletionUnchanged(prev, curr) == FALSE

\* The filter a view puts behind the one of state$
viewUnchanged(o, prev, curr) ==
    CASE o = "currentStep"    -> currentStepUnchanged(prev, curr)
      [] o = "stepCompletion" -> stepCompletionUnchanged(prev, curr)
      [] OTHER                -> FALSE

\* The subscriptions whose filter of state$ passes a value pushed by
\* stateSubject.next
Passed(newState) ==
    {o \in AllObservers :
        obs[o].subscribed /\ ~stateUnchanged(obs[o].last, newState)}

\* The observers a value pushed by stateSubject.next reaches
Delivered(newState) ==
    {o \in Passed(newState) : ~viewUnchanged(o, obs[o].last, newState)}

\* the receipts of the n-th commit of a call by the observers of a list
Receipts(list, n) == [k \in 1..Len(list) |-> <<list[k], n>>]

\* BehaviorSubject.next, no callback writing to the store
stateSubjectNext(newState) ==
    /\ state' = newState
    /\ obs' = [o \in AllObservers |->
                 IF o \in Passed(newState)
                 THEN [obs[o] EXCEPT !.last = newState] ELSE obs[o]]
    /\ received' = Receipts(SelectSeq(observers,
                                LAMBDA o : o \in Delivered(newState)), 1)
    /\ ctl' = [c \in DOMAIN ctl |->
                 IF c = StepperComponent
                 THEN stepperServe(ctl[c],
                        SelectSeq(observers,
                                  LAMBDA o : o \in Delivered(newState)),
                        newState)
                 ELSE IF c \in Delivered(newState)
                 THEN componentCallback(c, ctl[c], newState) ELSE ctl[c]]

\* The record of a store call
Call(name, idx, data, msg, pct, committed, delivered) ==
    [name |-> name, idx |-> idx, data |-> data, msg |-> msg, pct |-> pct,
     committed |-> committed, delivered |-> delivered]

\* updateState: push the new state if its JSON text differs
updateState(newState, name, idx, data, msg, pct) ==
    IF JSONstringifyState(state) # JSONstringifyState(newState)
    THEN /\ stateSubjectNext(newState)
         /\ UNCHANGED observers
         /\ UNCHANGED <<progressVars, instagramVars>>
         /\ op' = Call(name, idx, data, msg, pct, TRUE, Delivered(newState))
    ELSE /\ UNCHANGED <<state, obs, observers, ctl>>
         /\ received' = <<>>
         /\ UNCHANGED <<progressVars, instagramVars>>
         /\ op' = Call(name, idx, data, msg, pct, FALSE, {})

\* a call that returns without reaching updateState
Skip(name, idx, data, msg, pct) ==
    /\ UNCHANGED <<state, obs, observers, ctl>>
    /\ received' = <<>>
    /\ UNCHANGED <<progressVars, instagramVars>>
    /\ op' = Call(name, idx, data, msg, pct, FALSE, {})

----------------------------------------------------------------------------
(* The store operations *)

\* a check that looks at the first step instead of the active one
canProceedToNextStep_FirstStep(currentStep) ==
    state.steps[0].completed

\* a check that takes a missing step for a completed one
canProceedToNextStep_MissingIsDone(currentStep) ==
    IF currentStep \in StepIndex THEN state.steps[currentStep].completed ELSE TRUE

\* a check that lets a finished workflow advance once more
canProceedToNextStep_PastTheEnd(currentStep) ==
    IF currentStep \in StepIndex THEN state.steps[currentStep].completed
    ELSE currentStep = NumSteps

canProceedToNextStep(currentStep) ==
    IF currentStep \in StepIndex THEN state.steps[currentStep].completed ELSE FALSE

\* an advance that moves on to the first step not yet completed
FirstOpenStep ==
    IF \A i \in StepIndex : state.steps[i].completed THEN NumSteps
    ELSE CHOOSE i \in StepIndex :
            /\ ~state.steps[i].completed
            /\ \A j \in 0..(i - 1) : state.steps[j].completed
nextStep_SkipAhead ==
    /\ UNCHANGED stepDataCache
    /\ IF canProceedToNextStep(state.currentStep)
       THEN updateState([state EXCEPT !.currentStep = FirstOpenStep],
                        "nextStep", 0, Null, 0, 0)
       ELSE Skip("nextStep", 0, Null, 0, 0)

nextStep ==
    /\ UNCHANGED stepDataCache
    /\ IF canProceedToNextStep(state.currentStep)
       THEN updateState([state EXCEPT !.currentStep = state.currentStep + 1],
                        "nextStep", 0, Null, 0, 0)
       ELSE Skip("nextStep", 0, Null, 0, 0)

\* a retreat gated like the advance, by the completion of the active step
previousStep_IfCompleted ==
    /\ UNCHANGED stepDataCache
    /\ IF state.currentStep > 0 /\ canProceedToNextStep(state.currentStep)
       THEN updateState([state EXCEPT !.currentStep = state.currentStep - 1],
                        "previousStep", 0, Null, 0, 0)
       ELSE Skip("previousStep", 0, Null, 0, 0)

previousStep ==
    /\ UNCHANGED stepDataCache
    /\ IF state.currentStep > 0
       THEN updateState([state EXCEPT !.currentStep = state.currentStep - 1],
                        "previousStep", 0, Null, 0, 0)
       ELSE Skip("previousStep", 0, Null, 0, 0)

\* Map.get: undefined when the key has no entry
cacheGet(stepIndex) ==
    IF stepDataCache[stepIndex] = NoEntry THEN Undef ELSE stepDataCache[stepIndex]

\* a step built anew around the data
withData_Rebuild(step, data) ==
    [id |-> step.id, completed |-> FALSE, data |-> data,
     errors |-> step.errors, warnings |-> step.warnings, progress |-> step.progress]

\* { ...step, data }
withData(step, data) == [step EXCEPT !.data = data]

updateStepData(stepIndex, data) ==
    IF JSONstringify(cacheGet(stepIndex)) = JSONstringify(data)
    THEN /\ UNCHANGED stepDataCache
         /\ Skip("updateStepData", stepIndex, data, 0, 0)
    ELSE /\ stepDataCache' = [stepDataCache EXCEPT ![stepIndex] = data]
         /\ IF /\ stepIndex \in StepIndex
               /\ StrictNotEqual(state.steps[stepIndex].data, data)
            THEN updateState(
                   [state EXCEPT !.steps[stepIndex] = withData(@, data)],
                   "updateStepData", stepIndex, data, 0, 0)
            ELSE Skip("updateStepData", stepIndex, data, 0, 0)

\* a completion that clears the errors of the step
withCompleted_ClearErrors(step) == [step EXCEPT !.completed = TRUE, !.errors = <<>>]

\* { ...currentStep, completed: true }
withCompleted(step) == [step EXCEPT !.completed = TRUE]

\* a completion that writes a step at the index where it finds none
completeStep_AddMissing(stepIndex) ==
    /\ UNCHANGED stepDataCache
    /\ IF stepIndex \in StepIndex
       THEN IF ~state.steps[stepIndex].completed
            THEN updateState(
                   [state EXCEPT !.steps[stepIndex] = withCompleted(@)],
                   "completeStep", stepIndex, Null, 0, 0)
            ELSE Skip("completeStep", stepIndex, Null, 0, 0)
       ELSE updateState(
              [state EXCEPT !.steps =
                 [i \in StepIndex \cup {stepIndex} |->
                    IF i \in StepIndex THEN state.steps[i]
                    ELSE [id |-> "undefined", completed |-> TRUE, data |-> Undef,
                          errors |-> <<>>, warnings |-> <<>>, progress |-> 0]]],
              "completeStep", stepIndex, Null, 0, 0)

\* a completion that flips the flag of the step on every call
completeStep_Toggle(stepIndex) ==
    /\ UNCHANGED stepDataCache
    /\ IF stepIndex \in StepIndex
       THEN updateState(
              [state EXCEPT !.steps[stepIndex].completed = ~@],
              "completeStep", stepIndex, Null, 0, 0)
       ELSE Skip("completeStep", stepIndex, Null, 0, 0)

completeStep(stepIndex) ==
    /\ UNCHANGED stepDataCache
    /\ IF stepIndex \in StepIndex /\ ~state.steps[stepIndex].completed
       THEN updateState(
              [state EXCEPT !.steps[stepIndex] = withCompleted(@)],
              "completeStep", stepIndex, Null, 0, 0)
       ELSE Skip("completeStep", stepIndex, Null, 0, 0)

\* a progress update that also writes the workflow-wide progress snapshot
updateStepProgress_WorkflowWide(stepIndex, progress) ==
    /\ UNCHANGED stepDataCache
    /\ IF stepIndex \in StepIndex /\ state.steps[stepIndex].progress # progress
       THEN updateState(
              [state EXCEPT !.steps[stepIndex].progress = progress,
                            !.progress.status = "processing"],
              "updateStepProgress", stepIndex, Null, 0, progress)
       ELSE Skip("updateStepProgress", stepIndex, Null, 0, progress)

updateStepProgress(stepIndex, progress) ==
    /\ UNCHANGED stepDataCache
    /\ IF stepIndex \in StepIndex /\ state.steps[stepIndex].progress # progress
       THEN updateState(
              [state EXCEPT !.steps[stepIndex].progress = progress],
              "updateStepProgress", stepIndex, Null, 0, progress)
       ELSE Skip("updateStepProgress", stepIndex, Null, 0, progress)

\* a test of the last entry only
includes_LastOnly(list, m) == Len(list) > 0 /\ list[Len(list)] = m

\* Array.prototype.includes
includes(list, m) == \E k \in 1..Len(list) : list[k] = m

addStepError(stepIndex, error) ==
    /\ UNCHANGED stepDataCache
    /\ IF stepIndex \in StepIndex /\ ~includes(state.steps[stepIndex].errors, error)
       THEN updateState(
              [state EXCEPT !.steps[stepIndex].errors = Append(@, error)],
              "addStepError", stepIndex, Null, error, 0)
       ELSE Skip("addStepError", stepIndex, Null, error, 0)

addStepWarning(stepIndex, warning) ==
    /\ UNCHANGED stepDataCache
    /\ IF stepIndex \in StepIndex /\ ~includes(state.steps[stepIndex].warnings, warning)
       THEN updateState(
              [state EXCEPT !.steps[stepIndex].warnings = Append(@, warning)],
              "addStepWarning", stepIndex, Null, warning, 0)
       ELSE Skip("addStepWarning", stepIndex, Null, warning, 0)

\* a reset that pushes the initial state whatever the current one is
resetState_Unconditional ==
    /\ stepDataCache' = [i \in 0..NumSteps |-> NoEntry]
    /\ stateSubjectNext(getInitialState)
    /\ UNCHANGED observers
    /\ UNCHANGED <<progressVars, instagramVars>>
    /\ op' = Call("resetState", 0, Null, 0, 0, TRUE, Delivered(getInitialState))

resetState ==
    /\ stepDataCache' = [i \in 0..NumSteps |-> NoEntry]
    /\ updateState(getInitialState, "resetState", 0, Null, 0, 0)

\* a subject that replays the value it was constructed with
subscribe_ReplayFirst(o) ==
    /\ ~obs[o].subscribed
    /\ obs' = [obs EXCEPT ![o] = [subscribed |-> TRUE, last |-> getInitialState]]
    /\ observers' = Append(observers, o)
    /\ received' = << <<o, 0>> >>
    /\ ctl' = IF o \in Components
              THEN [ctl EXCEPT ![o] = componentCallback(o, @, obs'[o].last)]
              ELSE ctl
    /\ UNCHANGED <<progressVars, instagramVars>>
    /\ op' = Call("subscribe", 0, Null, 0, 0, FALSE, {o})
    /\ UNCHANGED <<state, stepDataCache>>

\* state$.subscribe(observer): the BehaviorSubject replays its current
\* value, which a new distinctUntilChanged always passes
subscribe(o) ==
    /\ ~obs[o].subscribed
    /\ obs' = [obs EXCEPT ![o] = [subscribed |-> TRUE, last |-> state]]
    /\ observers' = Append(observers, o)
    /\ received' = << <<o, 0>> >>
    /\ ctl' = IF o \in Components
              THEN [ctl EXCEPT ![o] = componentCallback(o, @, obs'[o].last)]
              ELSE ctl
    /\ UNCHANGED <<progressVars, instagramVars>>
    /\ op' = Call("subscribe", 0, Null, 0, 0, FALSE, {o})
    /\ UNCHANGED <<state, stepDataCache>>

\* Subscription.unsubscribe
unsubscribe(o) ==
    /\ obs[o].subscribed
    /\ obs' = [obs EXCEPT ![o] = NoSubscription]
    /\ observers' = SelectSeq(observers, LAMBDA x : x # o)
    /\ received' = <<>>
    /\ UNCHANGED <<progressVars, instagramVars>>
    /\ op' = Call("unsubscribe", 0, Null, 0, 0, FALSE, {})
    /\ UNCHANGED <<state, stepDataCache, ctl>>

----------------------------------------------------------------------------
(* Callbacks that write to the store.  stateSubject.next serves the        *)
(* observers one after the other, synchronously; a callback that calls a  *)
(* store operation runs that operation, its next() included, to the end   *)
(* before the observers behind it are served.                             *)

\* the store and its observers in the middle of a call: the state, the
\* cache, the subscriptions, the subject's observers, the fields of the
\* components, the number of commits of the call and the receipts so far
World ==
    [state |-> state, cache |-> stepDataCache, obs |-> obs, list |-> observers,
     ctl |-> ctl, commits |-> 0, received |-> <<>>]

\* { completedAt: new Date(), migrationResults: this.migrationResults }
CompletionData == Obj(<< <<"completedAt", "1">>, <<"migrationResults", "null">> >>)

RECURSIVE serve(_, _, _, _), nextIn(_, _), updateStateIn(_, _),
          completeStepIn(_, _), updateStepDataIn(_, _, _),
          completionCallback(_, _)

\* Subject.next from the k-th observer on: the n-th commit of the call,
\* newState, goes through the filter of each subscription to its callback
serve(w, k, newState, n) ==
    IF k > Len(w.list) THEN w
    ELSE LET o == w.list[k]
             prev == w.obs[o].last
         IN  IF stateUnchanged(prev, newState) THEN serve(w, k + 1, newState, n)
             ELSE LET passed == [w EXCEPT !.obs[o].last = newState]
                      got == [passed EXCEPT
                                !.received = Append(@, <<o, n>>),
                                !.ctl = IF o \in Components
                                        THEN [@ EXCEPT ![o] =
                                                componentCallback(o, @, newState)]
                                        ELSE [@ EXCEPT ![StepperComponent] =
                                                stepperCallback(@, o, newState)]]
                  IN  IF viewUnchanged(o, prev, newState)
                      THEN serve(passed, k + 1, newState, n)
                      ELSE IF o = CompletionObserver
                      THEN serve(completionCallback(got, newState), k + 1, newState, n)
                      ELSE serve(got, k + 1, newState, n)

\* BehaviorSubject.next: keep the value, then serve the observers
nextIn(w, newState) ==
    serve([w EXCEPT !.state = newState, !.commits = w.commits + 1],
          1, newState, w.commits + 1)

\* updateState, called while a call is under way
updateStateIn(w, newState) ==
    IF JSONstringifyState(w.state) # JSONstringifyState(newState)
    THEN nextIn(w, newState)
    ELSE w

\* completeStep, called while a call is under way
completeStepIn(w, stepIndex) ==
    IF stepIndex \in StepIndex /\ ~w.state.steps[stepIndex].completed
    THEN updateStateIn(w, [w.state EXCEPT !.steps[stepIndex] = withCompleted(@)])
    ELSE w

\* updateStepData, called while a call is under way
updateStepDataIn(w, stepIndex, data) ==
    LET cached == IF w.cache[stepIndex] = NoEntry THEN Undef
                  ELSE w.cache[stepIndex]
        set == [w EXCEPT !.cache[stepIndex] = data]
    IN  IF JSONstringify(cached) = JSONstringify(data) THEN w
        ELSE IF /\ stepIndex \in StepIndex
                /\ StrictNotEqual(w.state.steps[stepIndex].data, data)
        THEN updateStateIn(set,
                [w.state EXCEPT !.steps[stepIndex] = withData(@, data)])
        ELSE set

\* The callback the completion component gives to state$.subscribe: when
\* the snapshot shows step 4 open it calls its completeStep, which calls
\* completeStep(4) and updateStepData(4, ..) of the store
completionCallback(w, snapshot) ==
    IF ~snapshot.steps[4].completed
    THEN updateStepDataIn(completeStepIn(w, 4), 4, CompletionData)
    ELSE w

\* addStepError, called while a call is under way
addStepErrorIn(w, stepIndex, error) ==
    IF stepIndex \in StepIndex /\ ~includes(w.state.steps[stepIndex].errors, error)
    THEN updateStateIn(w,
            [w.state EXCEPT !.steps[stepIndex].errors = Append(@, error)])
    ELSE w

\* the variables after a handler of a component: idx is the step of the
\* component, msg the message the handler made of a failure (or none)
Settle(w, name, idx, msg) ==
    /\ state' = w.state
    /\ stepDataCache' = w.cache
    /\ obs' = w.obs
    /\ observers' = w.list
    /\ received' = w.received
    /\ ctl' = w.ctl
    /\ UNCHANGED <<progressVars, instagramVars>>
    /\ op' = Call(name, idx, Null, msg, 0, w.commits > 0,
                  {w.received[k][1] : k \in DOMAIN w.received})

\* CompletionComponent.ngOnInit: subscribe to state$; the subject takes
\* the subscriber into its list and replays its value to the callback
completionNgOnInit ==
    /\ ~obs[CompletionObserver].subscribed
    /\ Settle(completionCallback(
                [World EXCEPT
                    !.obs[CompletionObserver] = [subscribed |-> TRUE, last |-> state],
                    !.list = Append(observers, CompletionObserver),
                    !.received = << <<CompletionObserver, 0>> >>],
                state),
              "ngOnInit", 4, 0)

\* CompletionComponent.startNewMigration: resetState, with the component
\* subscribed
startNewMigration ==
    /\ obs[CompletionObserver].subscribed
    /\ Settle(updateStateIn(
                [World EXCEPT !.cache = [i \in 0..NumSteps |-> NoEntry]],
                getInitialState),
              "startNewMigration", 4, 0)

\* MigrationStepperComponent.ngOnInit: the subscriptions of the variant,
\* each replaying the value of the subject to its callback
stepperNgOnInit(variant) ==
    LET list == StepperSubscriptions(variant)
        mine == {list[k] : k \in DOMAIN list}
    IN  /\ ctl[StepperComponent].variant = "none"
        /\ \A o \in mine : ~obs[o].subscribed
        /\ Settle([World EXCEPT
                    !.obs = [o \in DOMAIN @ |->
                                IF o \in mine
                                THEN [subscribed |-> TRUE, last |-> state]
                                ELSE @[o]],
                    !.list = @ \o list,
                    !.received = [k \in DOMAIN list |-> <<list[k], 0>>],
                    !.ctl[StepperComponent] =
                        stepperServe([@ EXCEPT !.variant = variant],
                                     list, state)],
                  "stepper.ngOnInit", 0, 0)

\* nextStep of the store, called while a call is under way
nextStepIn(w) ==
    IF w.state.currentStep \in StepIndex
            /\ w.state.steps[w.state.currentStep].completed
    THEN updateStateIn(w, [w.state EXCEPT !.currentStep = @ + 1])
    ELSE w

\* previousStep of the store, called while a call is under way
previousStepIn(w) ==
    IF w.state.currentStep > 0
    THEN updateStateIn(w, [w.state EXCEPT !.currentStep = @ - 1])
    ELSE w

\* MigrationStepperComponent.nextStep
stepperNextStep ==
    /\ ctl[StepperComponent].variant # "none"
    /\ Settle(IF ctl[StepperComponent].canProceed THEN nextStepIn(World)
              ELSE World,
              "stepper.nextStep", 0, 0)

\* MigrationStepperComponent.previousStep
stepperPreviousStep ==
    /\ ctl[StepperComponent].variant # "none"
    /\ Settle(IF ctl[StepperComponent].canGoBack THEN previousStepIn(World)
              ELSE World,
              "stepper.previousStep", 0, 0)

----------------------------------------------------------------------------
(* The step controllers.  A handler that awaits a service is two steps:   *)
(* the one up to the await and the one from the settled promise on; the   *)
(* outcome of the service is an input of the second.                      *)

\* the step data the controllers save on completion
UploadData ==
    Obj(<< <<"posts", "1">>, <<"media", "1">>, <<"validationResult", "1">> >>)
AuthData == Obj(<< <<"accountInfo", "1">>, <<"username", "1">> >>)
ConfigData == Obj(<< <<"config", "1">> >>)
\* The payload of the execution step holds the component's migrationLogs
\* array itself, not a copy: live tells that the array is the one the
\* component still writes to.  The member reads "1" while the array is as
\* it was handed over and "2" once entries were put in front of it.
ExecutionData ==
    [t |-> "object",
     kv |-> << <<"completedPosts", "1">>, <<"completedMedia", "1">>,
               <<"migrationLogs", "1">>, <<"finalProgress", "1">> >>,
     live |-> TRUE]

\* no failure to report
NoFailure == ""

\* The user can call a handler of a step component when the component
\* exists (it subscribes in ngOnInit) and the stepper shows its step
shown(c, stepIndex) == obs[c].subscribed /\ state.currentStep = stepIndex

\* ContentUploadComponent.validateFiles up to its awaits
uploadValidateFiles ==
    /\ shown("upload", 0)
    /\ ~ctl["upload"].isProcessing
    /\ Settle([World EXCEPT !.ctl["upload"].isProcessing = TRUE,
                            !.ctl["upload"].errors = <<>>,
                            !.ctl["upload"].warnings = <<>>],
              "validateFiles", 0, NoFailure)

\* ContentUploadComponent.completeStep
uploadCompleteStep(w) ==
    updateStepDataIn(
        completeStepIn([w EXCEPT !.ctl["upload"].isStepCompleted = TRUE], 0),
        0, UploadData)

\* ContentUploadComponent.validateFiles from the settled
\* validateExportData on
uploadValidated(outcome) ==
    /\ ctl["upload"].isProcessing
    /\ LET failure ==
              CASE outcome = "invalid" -> "Invalid export"
                [] outcome = "rejects" -> "Validation failed"
                [] OTHER -> NoFailure
           w == CASE outcome = "valid" -> uploadCompleteStep(World)
                  [] outcome = "invalid" ->
                        [World EXCEPT !.ctl["upload"].errors = <<failure>>,
                                      !.ctl["upload"].warnings = <<"Export warning">>]
                  [] OTHER -> [World EXCEPT !.ctl["upload"].errors = <<failure>>]
       IN  Settle([w EXCEPT !.ctl["upload"].isProcessing = FALSE],
                  "validateExportData", 0, failure)

\* BlueskyAuthComponent.onSubmit up to await authenticate
authOnSubmit ==
    /\ shown("auth", 1)
    /\ ~ctl["auth"].isAuthenticating
    /\ Settle([World EXCEPT !.ctl["auth"].isAuthenticating = TRUE,
                            !.ctl["auth"].errors = <<>>],
              "onSubmit", 1, NoFailure)

\* BlueskyAuthComponent.completeStep
authCompleteStep(w) ==
    updateStepDataIn(
        completeStepIn([w EXCEPT !.ctl["auth"].isStepCompleted = TRUE], 1),
        1, AuthData)

\* a handler that completes the step also when authenticate returned false
authAuthenticated_CompleteOnFalse(outcome) ==
    /\ ctl["auth"].isAuthenticating
    /\ ~ctl["auth"].loadingAccountInfo
    /\ LET failure ==
              CASE outcome = "false" -> "Authentication failed"
                [] outcome = "rejects" -> "Authentication error"
                [] OTHER -> NoFailure
       IN  CASE outcome = "true" ->
                  Settle([World EXCEPT !.ctl["auth"].isAuthenticated = TRUE,
                                       !.ctl["auth"].loadingAccountInfo = TRUE],
                         "authenticate", 1, failure)
             [] outcome = "false" ->
                  Settle([authCompleteStep(World) EXCEPT
                                       !.ctl["auth"].isAuthenticating = FALSE],
                         "authenticate", 1, failure)
             [] OTHER ->
                  Settle([World EXCEPT !.ctl["auth"].errors = <<failure>>,
                                       !.ctl["auth"].isAuthenticating = FALSE],
                         "authenticate", 1, failure)

\* BlueskyAuthComponent.onSubmit from the settled authenticate on: to
\* await loadAccountInfo after a success, to the end after a failure
authAuthenticated(outcome) ==
    /\ ctl["auth"].isAuthenticating
    /\ ~ctl["auth"].loadingAccountInfo
    /\ LET failure ==
              CASE outcome = "false" -> "Authentication failed"
                [] outcome = "rejects" -> "Authentication error"
                [] OTHER -> NoFailure
       IN  IF outcome = "true"
           THEN Settle([World EXCEPT !.ctl["auth"].isAuthenticated = TRUE,
                                     !.ctl["auth"].loadingAccountInfo = TRUE],
                       "authenticate", 1, failure)
           ELSE Settle([World EXCEPT !.ctl["auth"].errors = <<failure>>,
                                     !.ctl["auth"].isAuthenticating = FALSE],
                       "authenticate", 1, failure)

\* BlueskyAuthComponent.onSubmit from the settled loadAccountInfo on
\* (which catches its own failure)
authAccountInfoLoaded ==
    /\ ctl["auth"].loadingAccountInfo
    /\ LET w == authCompleteStep(
                    [World EXCEPT !.ctl["auth"].loadingAccountInfo = FALSE])
       IN  Settle([w EXCEPT !.ctl["auth"].isAuthenticating = FALSE],
                  "loadAccountInfo", 1, NoFailure)

\* BlueskyAuthComponent.logout
authLogout ==
    /\ shown("auth", 1)
    /\ Settle(addStepErrorIn(
              updateStepDataIn(
                 [World EXCEPT !.ctl["auth"].isAuthenticated = FALSE,
                               !.ctl["auth"].isStepCompleted = FALSE],
                 1, Null),
              1, "User logged out"),
           "logout", 1, NoFailure)

\* MigrationConfigComponent.onSubmit
configOnSubmit ==
    /\ state.currentStep = 2
    /\ Settle(completeStepIn(updateStepDataIn(World, 2, ConfigData), 2),
              "config.onSubmit", 2, NoFailure)

\* whether a payload holds the array the component writes to
isLive(payload) == "live" \in DOMAIN payload /\ payload.live

\* a payload after migrationLogs.unshift(..) on the array it holds
unshifted(payload) ==
    IF isLive(payload)
    THEN [payload EXCEPT !.kv =
            [k \in DOMAIN @ |->
                IF @[k][1] = "migrationLogs" THEN <<"migrationLogs", "2">>
                ELSE @[k]]]
    ELSE payload

\* a payload after the component took a new array for its migrationLogs
retired(payload) ==
    IF isLive(payload) THEN [payload EXCEPT !.live = FALSE] ELSE payload

\* the places that hold the payload of the execution step: the state of
\* the store, the cache, and the snapshots the observers got last
inHolders(w, write) ==
    LET change(payload) == IF write = "unshift" THEN unshifted(payload)
                           ELSE retired(payload)
    IN  [w EXCEPT !.state.steps[3].data = change(@),
                  !.cache[3] = change(@),
                  !.obs = [o \in DOMAIN @ |->
                             IF @[o].last = <<>> THEN @[o]
                             ELSE [@[o] EXCEPT
                                     !.last.steps[3].data = change(@)]]]

\* MigrationExecutionComponent.addMigrationLog: unshift on the array of
\* the component.  (The slice that keeps 100 entries makes a new array
\* after the unshift, so it does not undo the write to the old one.)
addMigrationLog(w) == inHolders(w, "unshift")

\* this.migrationLogs = []
newMigrationLogs(w) == inHolders(w, "new array")

\* The callback the execution component gives to progress$.subscribe, for
\* a snapshot of the given status
progressCallback(w, status) ==
    addMigrationLog(
        CASE status = "completed" ->
                [w EXCEPT !.ctl["execution"].isMigrationRunning = FALSE,
                          !.ctl["execution"].isMigrationPaused = FALSE]
          [] status = "processing" ->
                [w EXCEPT !.ctl["execution"].isMigrationRunning = TRUE,
                          !.ctl["execution"].isMigrationPaused = FALSE]
          [] OTHER -> w)

\* MigrationExecutionComponent.startMigration up to its await, or to its
\* return when there are no posts
executionStartMigration ==
    /\ shown("execution", 3)
    /\ ~ctl["execution"].isMigrationRunning
    /\ ctl["execution"].awaiting < MaxAwaiting
    /\ IF ~ctl["execution"].hasPosts
       THEN Settle([World EXCEPT !.ctl["execution"].errors = <<"No posts available">>],
                   "startMigration", 3, NoFailure)
       ELSE Settle(addMigrationLog(addMigrationLog(newMigrationLogs(
                     [World EXCEPT !.ctl["execution"].isMigrationRunning = TRUE,
                                   !.ctl["execution"].isMigrationPaused = FALSE,
                                   !.ctl["execution"].errors = <<>>,
                                   !.ctl["execution"].warnings = <<>>,
                                   !.ctl["execution"].awaiting = @ + 1]))),
                   "startMigration", 3, NoFailure)

\* MigrationExecutionComponent.completeStep
executionCompleteStep(w) ==
    updateStepDataIn(
        completeStepIn([w EXCEPT !.ctl["execution"].isStepCompleted = TRUE], 3),
        3, ExecutionData)

\* MigrationExecutionComponent.startMigration from the settled
\* progressService.startMigration on
executionMigrated(outcome) ==
    \E ofCancelled \in BOOLEAN :
    /\ IF ofCancelled THEN ctl["execution"].cancelled > 0
       ELSE ctl["execution"].awaiting > ctl["execution"].cancelled
    /\ LET failure == IF outcome = "rejects" THEN "Migration failed" ELSE NoFailure
           w == IF outcome = "resolves"
                THEN executionCompleteStep(addMigrationLog(World))
                ELSE addMigrationLog(
                        [World EXCEPT !.ctl["execution"].errors = <<failure>>])
       IN  Settle([w EXCEPT !.ctl["execution"].isMigrationRunning = FALSE,
                            !.ctl["execution"].awaiting = @ - 1,
                            !.ctl["execution"].cancelled =
                                IF ofCancelled THEN @ - 1 ELSE @],
                  "progressService.startMigration", 3, failure)

\* MigrationExecutionComponent.pauseMigration: the service publishes its
\* snapshot as 'idle', which the callback of progress$ logs
executionPauseMigration ==
    /\ shown("execution", 3)
    /\ Settle(addMigrationLog(
                [progressCallback(World, "idle") EXCEPT
                    !.ctl["execution"].isMigrationPaused = TRUE]),
              "pauseMigration", 3, NoFailure)

\* MigrationExecutionComponent.resumeMigration: the service publishes its
\* snapshot as 'processing'
executionResumeMigration ==
    /\ shown("execution", 3)
    /\ Settle(addMigrationLog(
                [progressCallback(World, "processing") EXCEPT
                    !.ctl["execution"].isMigrationPaused = FALSE]),
              "resumeMigration", 3, NoFailure)

\* MigrationExecutionComponent.cancelMigration: the service publishes the
\* idle snapshot
executionCancelMigration ==
    /\ shown("execution", 3)
    /\ Settle(addMigrationLog(
                [progressCallback(World, "idle") EXCEPT
                    !.ctl["execution"].isMigrationRunning = FALSE,
                    !.ctl["execution"].isMigrationPaused = FALSE,
                    !.ctl["execution"].cancelled = ctl["execution"].awaiting]),
              "cancelMigration", 3, NoFailure)

----------------------------------------------------------------------------
(* The progress service (ProgressServiceMVP) *)

MigrationProgress(currentPost, totalPosts, currentMedia, totalMedia, status, estimatedTimeRemaining) ==
    [currentPost |-> currentPost, totalPosts |-> totalPosts,
     currentMedia |-> currentMedia, totalMedia |-> totalMedia,
     status |-> status, estimatedTimeRemaining |-> estimatedTimeRemaining]

\* the value the BehaviorSubject is constructed with, and resetProgress's
IdleProgress == MigrationProgress(0, 0, 0, 0, "idle", "0m")

\* posts.reduce((sum, post) => sum + post.media.length, 0); a post is
\* modelled by its media.length
RECURSIVE totalMediaOf(_)
totalMediaOf(posts) ==
    IF posts = <<>> THEN 0 ELSE Head(posts) + totalMediaOf(Tail(posts))

calculateRemainingTime(currentPost, totalPosts) ==
    LET remainingPosts == totalPosts - currentPost
        remainingMinutes == remainingPosts * 2
        hours == remainingMinutes \div 60
        minutes == remainingMinutes % 60
    IN  ToString(hours) \o "h " \o ToString(minutes) \o "m"

startingSnapshot(posts) ==
    MigrationProgress(0, Len(posts), 0, totalMediaOf(posts), "starting", "0m")

completedSnapshot(posts) ==
    MigrationProgress(Len(posts), Len(posts), totalMediaOf(posts),
                      totalMediaOf(posts), "completed", "0m")

processingSnapshot_IndexAsCount(value, posts, postIndex) ==
    MigrationProgress(postIndex, Len(posts),
                      value.currentMedia + posts[postIndex + 1],
                      totalMediaOf(posts), "processing",
                      calculateRemainingTime(postIndex, Len(posts)))

\* the snapshot simulatePostProcessing emits for posts[postIndex] (the
\* sequences of the model count from 1) when the subject holds value
processingSnapshot(value, posts, postIndex) ==
    MigrationProgress(postIndex + 1, Len(posts),
                      value.currentMedia + posts[postIndex + 1],
                      totalMediaOf(posts), "processing",
                      calculateRemainingTime(postIndex, Len(posts)))

\* { ...this.progressSubject.value, ...progress }
spread(value, progress) ==
    [k \in DOMAIN value |->
        IF k \in DOMAIN progress THEN progress[k] ELSE value[k]]

\* the calls of startMigration in flight at once: a run and one that
\* overlaps it
RunIds == {1, 2}
NoRun == [posts |-> <<>>, i |-> 0, inFlight |-> FALSE, disturbed |-> FALSE,
          paused |-> FALSE, cancelled |-> FALSE]
InFlight == {r \in RunIds : runs[r].inFlight}

\* what the calls made while a run is in flight leave in its record
noted(name, self) ==
    [r \in RunIds |->
        IF r = self \/ ~runs[r].inFlight THEN runs[r]
        ELSE [runs[r] EXCEPT
                !.disturbed = TRUE,
                !.paused = IF name = "pauseMigration" THEN TRUE
                           ELSE IF name = "resumeMigration" THEN FALSE
                           ELSE @,
                !.cancelled = @ \/ name = "cancelMigration"]]

ProgressCall(name, run, posts) ==
    [name |-> name, idx |-> run, data |-> posts,
     undisturbed |-> run \in RunIds /\ ~runs[run].disturbed]

\* progressSubject.next(snapshot), once for each of the snapshots
progressSubjectNext(snapshots) ==
    /\ progressSubject' = snapshots[Len(snapshots)]
    /\ emitted' = snapshots
    /\ UNCHANGED <<storeVars, instagramVars>>

\* startMigration(posts) up to its first await: with no posts the loop is
\* not entered and the call runs to its end
startMigration(posts) ==
    /\ InFlight # RunIds
    /\ LET r == CHOOSE x \in RunIds \ InFlight :
                    \A y \in RunIds \ InFlight : x <= y
       IN  IF posts = <<>>
           THEN /\ progressSubjectNext(<<startingSnapshot(posts),
                                         completedSnapshot(posts)>>)
                /\ runs' = noted("startMigration", 0)
                /\ op' = ProgressCall("startMigration", 0, posts)
           ELSE /\ progressSubjectNext(<<startingSnapshot(posts)>>)
                /\ runs' = [noted("startMigration", 0) EXCEPT
                              ![r] = [NoRun EXCEPT !.posts = posts,
                                                   !.inFlight = TRUE]]
                /\ op' = ProgressCall("startMigration", r, posts)

\* a run that reacts to cancelMigration by not going on
postProcessed_StopOnCancel(r) ==
    /\ runs[r].inFlight
    /\ ~runs[r].cancelled
    /\ LET run == runs[r]
           processing == processingSnapshot(progressSubject, run.posts, run.i)
       IN  IF run.i + 1 < Len(run.posts)
           THEN /\ progressSubjectNext(<<processing>>)
                /\ runs' = [noted("simulatePostProcessing", r) EXCEPT
                              ![r].i = run.i + 1]
           ELSE /\ progressSubjectNext(<<processing,
                                         completedSnapshot(run.posts)>>)
                /\ runs' = [noted("simulatePostProcessing", r) EXCEPT
                              ![r] = NoRun]
    /\ op' = ProgressCall("simulatePostProcessing", r, runs[r].posts)

\* the timer of simulatePostProcessing fires in run r: the snapshot of the
\* post is emitted, and the loop of startMigration goes on to the next
\* await or, after the last post, to the end of the call
postProcessed(r) ==
    /\ runs[r].inFlight
    /\ LET run == runs[r]
           processing == processingSnapshot(progressSubject, run.posts, run.i)
       IN  IF run.i + 1 < Len(run.posts)
           THEN /\ progressSubjectNext(<<processing>>)
                /\ runs' = [noted("simulatePostProcessing", r) EXCEPT
                              ![r].i = run.i + 1]
           ELSE /\ progressSubjectNext(<<processing,
                                         completedSnapshot(run.posts)>>)
                /\ runs' = [noted("simulatePostProcessing", r) EXCEPT
                              ![r] = NoRun]
    /\ op' = ProgressCall("simulatePostProcessing", r, runs[r].posts)

updateProgress(progress) ==
    /\ progressSubjectNext(<<spread(progressSubject, progress)>>)
    /\ runs' = noted("updateProgress", 0)
    /\ op' = ProgressCall("updateProgress", 0, <<>>)

resetProgressAs(name) ==
    /\ progressSubjectNext(<<IdleProgress>>)
    /\ runs' = noted(name, 0)
    /\ op' = ProgressCall(name, 0, <<>>)

resetProgress == resetProgressAs("resetProgress")

pauseMigration ==
    /\ progressSubjectNext(<<spread(progressSubject, [status |-> "idle"])>>)
    /\ runs' = noted("pauseMigration", 0)
    /\ op' = ProgressCall("pauseMigration", 0, <<>>)

resumeMigration ==
    /\ progressSubjectNext(
            <<spread(progressSubject, [status |-> "processing"])>>)
    /\ runs' = noted("resumeMigration", 0)
    /\ op' = ProgressCall("resumeMigration", 0, <<>>)

cancelMigration == resetProgressAs("cancelMigration")

----------------------------------------------------------------------------
(***************************************************************************)
(* The Instagram service (services/instagram/instagram.service.ts):        *)
(* filterPostsByDate.  A Date is its time value, a whole number of the     *)
(* time unit or NaN (an Invalid Date).                                     *)
(***************************************************************************)
Date(time) == [t |-> "Date", valid |-> TRUE, time |-> time]
InvalidDate == [t |-> "Date", valid |-> FALSE, time |-> 0]

\* new Date(value) of a Date: another Date of the same time value
newDate(value) == [t |-> "Date", valid |-> value.valid, time |-> value.time]

\* !value of a Date or null: every object is truthy, an Invalid Date too
falsy(value) == value.t \in {"null", "undefined"}

\* a >= b and a <= b on two Dates: their time values are compared as
\* numbers, and every comparison with NaN is false
dateGE(a, b) == a.valid /\ b.valid /\ a.time >= b.time
dateLE(a, b) == a.valid /\ b.valid /\ a.time <= b.time

\* the same filter with the end of the range left out of it
filterPostsByDate_ExclusiveEnd(posts, startDate, endDate) ==
    LET keep(post) ==
            LET postDate == newDate(post.timestamp)
                afterStart == falsy(startDate) \/ dateGE(postDate, startDate)
                beforeEnd == falsy(endDate)
                                \/ (/\ dateLE(postDate, endDate)
                                    /\ postDate.time # endDate.time)
            IN  afterStart /\ beforeEnd
    IN  SelectSeq(posts, keep)

\* posts.filter(post => afterStart && beforeEnd): a new array of the posts
\* the callback keeps, in the order of posts
filterPostsByDate(posts, startDate, endDate) ==
    LET keep(post) ==
            LET postDate == newDate(post.timestamp)
                afterStart == falsy(startDate) \/ dateGE(postDate, startDate)
                beforeEnd == falsy(endDate) \/ dateLE(postDate, endDate)
            IN  afterStart /\ beforeEnd
    IN  SelectSeq(posts, keep)

\* a caller's filtered = filterPostsByDate(posts, startDate, endDate), as in
\* the service's test: the array passed is left as it is
filterPostsByDateCall ==
    /\ filtered' = filterPostsByDate(instagramPosts, dateRange.startDate,
                                     dateRange.endDate)
    /\ op' = [name |-> "filterPostsByDate", posts |-> instagramPosts,
              startDate |-> dateRange.startDate,
              endDate |-> dateRange.endDate]
    /\ UNCHANGED <<storeVars, progressVars, instagramPosts, dateRange>>

----------------------------------------------------------------------------
(* The inputs of the store calls *)

\* the step the callers write data, progress, errors and warnings to
PayloadSteps == {1}
\* step indices given to completeStep: every step, and NumSteps, an index
\* without step
CompleteSteps == 0..NumSteps
\* the payloads given to updateStepData
DataVals == {Null, Undef, NaN, ObjAB, ObjBA}
\* error and warning messages, by number
OneMsg == {1}
ProgressVals == {0, 25}

\* the services after construction
InitServices ==
    /\ state = getInitialState
    /\ stepDataCache = [i \in 0..NumSteps |-> NoEntry]
    /\ obs = [o \in AllObservers |-> NoSubscription]
    /\ observers = <<>>
    /\ received = <<>>
    /\ ctl = InitialFields
    /\ progressSubject = IdleProgress
    /\ runs = [r \in RunIds |-> NoRun]
    /\ emitted = <<>>
    /\ op = Call("constructor", 0, Null, 0, 0, FALSE, {})

Init ==
    /\ InitServices
    /\ instagramPosts = <<>>
    /\ dateRange = [startDate |-> Null, endDate |-> Null]
    /\ filtered = <<>>

\* The store driven by its callers through the whole workflow, nobody
\* subscribed
Next ==
    \/ nextStep
    \/ previousStep
    \/ \E i \in CompleteSteps : completeStep(i)
    \/ \E i \in PayloadSteps, d \in DataVals : updateStepData(i, d)
    \/ \E i \in PayloadSteps, p \in ProgressVals : updateStepProgress(i, p)
    \/ \E i \in PayloadSteps, m \in OneMsg : addStepError(i, m)
    \/ \E i \in PayloadSteps, m \in OneMsg : addStepWarning(i, m)
    \/ resetState

Spec == Init /\ [][Next]_vars

\* The callers working on the first steps of the workflow, reporting
\* several messages
MsgsSteps == {0, 1}
Msgs == 1..MaxMsgs
MsgsDataVals == {Null, ObjAB}

NextMsgs ==
    \/ nextStep
    \/ previousStep
    \/ \E i \in MsgsSteps : completeStep(i)
    \/ \E i \in PayloadSteps, d \in MsgsDataVals : updateStepData(i, d)
    \/ \E i \in PayloadSteps, p \in ProgressVals : updateStepProgress(i, p)
    \/ \E i \in PayloadSteps, m \in Msgs : addStepError(i, m)
    \/ \E i \in PayloadSteps, m \in Msgs : addStepWarning(i, m)
    \/ resetState

SpecMsgs == Init /\ [][NextMsgs]_vars

\* The store with observers of state$ coming and going, the callers
\* working on the first steps of the workflow
WorkSteps == 0..MaxWorkStep
ObsDataVals == {ObjAB, ObjBA}

NextObs ==
    \/ nextStep
    \/ previousStep
    \/ \E i \in WorkSteps : completeStep(i)
    \/ \E i \in PayloadSteps, d \in ObsDataVals : updateStepData(i, d)
    \/ \E i \in PayloadSteps, p \in ProgressVals : updateStepProgress(i, p)
    \/ \E i \in PayloadSteps, m \in OneMsg : addStepError(i, m)
    \/ \E i \in PayloadSteps, m \in OneMsg : addStepWarning(i, m)
    \/ resetState
    \/ \E o \in Observers : subscribe(o)
    \/ \E o \in Observers : unsubscribe(o)

SpecObs == Init /\ [][NextObs]_vars

\* The store with the completion component and the stepper subscribing in
\* any order.  A snapshot with step 4 open reaches the subscribed
\* completion component on its subscription and on a reset only, the two
\* calls that go through its callback here.
NextReentry ==
    \/ nextStep
    \/ previousStep
    \/ \E i \in WorkSteps : completeStep(i)
    \/ (~obs[CompletionObserver].subscribed /\ resetState)
    \/ \E o \in Observers : subscribe(o)
    \/ \E o \in Observers \cup {CompletionObserver} : unsubscribe(o)
    \/ completionNgOnInit
    \/ startNewMigration

SpecReentry == Init /\ [][NextReentry]_vars

\* The step controllers driving the store, the step components subscribed
\* as they are created
ValidateOutcomes == {"valid", "invalid", "rejects"}
AuthenticateOutcomes == {"true", "false", "rejects"}
MigrateOutcomes == {"resolves", "rejects"}

NextCtl ==
    \/ nextStep
    \/ previousStep
    \/ \E c \in Components : subscribe(c)
    \/ uploadValidateFiles
    \/ \E outcome \in ValidateOutcomes : uploadValidated(outcome)
    \/ authOnSubmit
    \/ \E outcome \in AuthenticateOutcomes : authAuthenticated(outcome)
    \/ authAccountInfoLoaded
    \/ authLogout
    \/ configOnSubmit
    \/ executionStartMigration
    \/ \E outcome \in MigrateOutcomes : executionMigrated(outcome)

SpecCtl == Init /\ [][NextCtl]_vars

\* The store with observers of the views currentStep$ and stepCompletion$
\* coming and going, the callers working on the first steps
NextViews ==
    \/ nextStep
    \/ previousStep
    \/ \E i \in WorkSteps : completeStep(i)
    \/ resetState
    \/ \E o \in ViewObservers : subscribe(o)
    \/ \E o \in ViewObservers : unsubscribe(o)

SpecViews == Init /\ [][NextViews]_vars

\* The progress service driven by the execution step and by its other
\* callers: runs of startMigration, their timers, and the calls that
\* pause, resume, cancel, reset and update
MediaCounts == {0, 2}
PostLists == UNION {[1..n -> MediaCounts] : n \in 0..MaxPosts}
ProgressUpdates == {[status |-> "error"], [currentMedia |-> 1]}

NextProgress ==
    \/ \E posts \in PostLists : startMigration(posts)
    \/ \E r \in RunIds : postProcessed(r)
    \/ \E progress \in ProgressUpdates : updateProgress(progress)
    \/ resetProgress
    \/ pauseMigration
    \/ resumeMigration
    \/ cancelMigration

SpecProgress == Init /\ [][NextProgress]_vars


\* The execution step at work: the store brought to step 3 by its callers,
\* the execution component, and a stepper watching state$
NextExec ==
    \/ nextStep
    \/ \E i \in {0, 1} : completeStep(i)
    \/ configOnSubmit
    \/ \E o \in {"execution", "stepper"} : subscribe(o)
    \/ executionStartMigration
    \/ \E outcome \in MigrateOutcomes : executionMigrated(outcome)
    \/ executionPauseMigration
    \/ executionResumeMigration
    \/ executionCancelMigration

SpecExec == Init /\ [][NextExec]_vars


\* The stepper at work: the store's callers complete steps and reset, the
\* stepper navigates
NextNav ==
    \/ \E variant \in StepperVariants : stepperNgOnInit(variant)
    \/ stepperNextStep
    \/ stepperPreviousStep
    \/ \E i \in StepIndex : completeStep(i)
    \/ resetState

SpecNav == Init /\ [][NextNav]_vars


\* The progress service without updateProgress: runs, their timers, and
\* the calls that pause, resume, cancel and reset
NextRuns ==
    \/ \E posts \in PostLists : startMigration(posts)
    \/ \E r \in RunIds : postProcessed(r)
    \/ resetProgress
    \/ pauseMigration
    \/ resumeMigration
    \/ cancelMigration

SpecRuns == Init /\ [][NextRuns]_vars


\* the posts the execution component hands over: generateMockProcessedPosts
\* makes posts without media
MockPostLists == {[k \in 1..n |-> 0] : n \in 0..MaxPosts}

\* The progress service with its timers: a timer set by
\* simulatePostProcessing fires after 2 to 5 seconds, whatever else is
\* called meanwhile
NextProgressFair ==
    \/ \E posts \in MockPostLists : startMigration(posts)
    \/ \E r \in RunIds : postProcessed(r)
    \/ \E progress \in ProgressUpdates : updateProgress(progress)
    \/ resetProgress
    \/ pauseMigration
    \/ resumeMigration
    \/ cancelMigration

SpecProgressFair ==
    /\ Init /\ [][NextProgressFair]_vars
    /\ \A r \in RunIds : WF_vars(postProcessed(r))


\* The store given step-shaped payloads, as in the tests of updateStepData
ShapeDataVals(i) == {Null, StepData, StepPayload(i)}

NextShape ==
    \/ nextStep
    \/ previousStep
    \/ \E i \in MsgsSteps : completeStep(i)
    \/ \E i \in MsgsSteps : \E d \in ShapeDataVals(i) : updateStepData(i, d)
    \/ resetState

SpecShape == Init /\ [][NextShape]_vars


\* The Instagram service given posts of up to MaxPosts, each with its
\* timestamp, and a date range with either end a Date or null
Timestamps == {0, 1, 2}
Dates == {Date(time) : time \in Timestamps} \cup {InvalidDate}
InstagramPostLists ==
    UNION {{[k \in 1..n |-> [id |-> k, timestamp |-> ts[k]]] :
                ts \in [1..n -> Dates]} : n \in 0..MaxPosts}

InitFilter ==
    /\ InitServices
    /\ instagramPosts \in InstagramPostLists
    /\ dateRange \in [startDate : Dates \cup {Null}, endDate : Dates \cup {Null}]
    /\ filtered = <<>>

NextFilter == filterPostsByDateCall

SpecFilter == InitFilter /\ [][NextFilter]_vars

----------------------------------------------------------------------------
(* Properties of the store *)

\* the step at currentStep exists and is completed
ActiveStepCompleted ==
    /\ state.currentStep \in StepIndex
    /\ state.steps[state.currentStep].completed

AllCompleted == \A i \in StepIndex : state.steps[i].completed

\* C1 - Navigation gating: when the active step is not completed,
\* nextStep changes nothing of the state and nothing reaches an observer.
C1_NavigationGating ==
    [][(op'.name = "nextStep" /\ ~ActiveStepCompleted)
        => (state' = state /\ obs' = obs /\ ~op'.committed /\ op'.delivered = {})]_vars

\* nextStep was refused at step 1, an observer watching
C1_Witness ==
    /\ op.name = "nextStep" /\ ~op.committed
    /\ state.currentStep = 1
    /\ state.steps[0].completed /\ ~state.steps[1].completed
    /\ obs["stepper"].subscribed

\* C2 - Bounded index: 0 <= currentStep <= 5 in every reachable state.
C2_BoundedIndex ==
    /\ 0 <= state.currentStep
    /\ state.currentStep <= 5

\* nextStep was called at the index past the last step
C2_Witness ==
    /\ state.currentStep = 5
    /\ op.name = "nextStep" /\ ~op.committed
    /\ AllCompleted

\* C3 - nextStep advances iff the active step is completed, then by
\* exactly one step, and changes nothing else of the state.
C3_AdvanceByOne ==
    [][op'.name = "nextStep"
        => IF ActiveStepCompleted
           THEN state' = [state EXCEPT !.currentStep = state.currentStep + 1]
           ELSE state' = state]_vars

\* nextStep moved from step 0 to step 1 although every later step was
\* completed already
C3_Witness ==
    /\ op.name = "nextStep" /\ op.committed
    /\ state.currentStep = 1
    /\ AllCompleted

\* C4 - Monotonic completion: no operation but resetState sets a
\* completed flag back to false.
C4_MonotonicCompletion ==
    [][op'.name # "resetState"
        => \A i \in StepIndex :
              state.steps[i].completed => state'.steps[i].completed]_vars

\* data was written to a step completed before, and the step is still
\* completed
C4_Witness ==
    /\ op.name = "updateStepData" /\ op.committed
    /\ state.steps[op.idx].completed
    /\ state.steps[op.idx].data = op.data

\* C5 - Every commit is delivered: whenever an operation pushes a new
\* state, every subscribed observer of state$ receives that state.
C5_EveryCommitDelivered ==
    [][op'.committed
        => \A o \in Observers :
              obs[o].subscribed => (o \in op'.delivered /\ obs'[o].last = state')]_vars

C7_DedupOnWrite ==
    [][(/\ op.name = "updateStepData" /\ op'.name = "updateStepData"
        /\ op'.idx = op.idx
        /\ DeepEqual(op.data, op'.data))
        => (~op'.committed /\ state' = state /\ op'.delivered = {})]_vars

\* m occurs in list exactly once
Once(list, m) == Cardinality({k \in 1..Len(list) : list[k] = m}) = 1
NoDuplicates(list) == \A k \in 1..Len(list) : Once(list, list[k])

\* C8 - Dedup on error and warning: no step's errors or warnings hold a
\* message twice, and after addStepError(i, m) (addStepWarning) the
\* message m is in the list of step i exactly once.
C8_DedupMessages ==
    /\ \A i \in StepIndex :
          /\ NoDuplicates(state.steps[i].errors)
          /\ NoDuplicates(state.steps[i].warnings)
    /\ op.name = "addStepError" => Once(state.steps[op.idx].errors, op.msg)
    /\ op.name = "addStepWarning" => Once(state.steps[op.idx].warnings, op.msg)

\* addStepError was called with a message already in a list of two
C8_Witness ==
    /\ op.name = "addStepError" /\ ~op.committed
    /\ Len(state.steps[op.idx].errors) >= 2
    /\ state.steps[op.idx].errors[1] = op.msg

\* C9 - Reset: after resetState the state deep-equals the state of a
\* freshly constructed store.
C9_ResetToInitial ==
    op.name = "resetState" => DeepEqualState(state, getInitialState)

\* C10 - Replay on subscribe: an observer that subscribes receives the
\* current state of the store at once.
C10_ReplayOnSubscribe ==
    op.name = "subscribe"
        => /\ op.delivered # {}
           /\ \A o \in op.delivered : obs[o].subscribed /\ obs[o].last = state

\* an observer subscribed after commits that changed the data, the
\* progress, the errors and the warnings of a step only
C10_Witness ==
    /\ op.name = "subscribe"
    /\ state.currentStep = 0
    /\ \A i \in StepIndex : ~state.steps[i].completed
    /\ state.steps[1].data = ObjBA
    /\ state.steps[1].progress = 25
    /\ state.steps[1].errors # <<>>
    /\ state.steps[1].warnings # <<>>

\* C11 - Commit-order delivery: no observer's callback gets an earlier
\* commit of a call after a later one, also when the completion
\* component's callback commits during the delivery.
C11_CommitOrderDelivery ==
    \A i, j \in DOMAIN received :
        (i < j /\ received[i][1] = received[j][1])
            => received[i][2] < received[j][2]

\* the vector of the completed flags of a snapshot
completedVector(snapshot) == [i \in StepIndex |-> snapshot.steps[i].completed]

\* C12 - Views deduplicate by their own equality: a store call makes
\* currentStep$ emit only an index that differs from the one it emitted
\* last, and stepCompletion$ only a vector of completed flags that differs
\* from the one it emitted last.
C12_ViewsDeduplicate ==
    [][op'.name # "subscribe" =>
        /\ "currentStep" \in op'.delivered
              => state'.currentStep # obs["currentStep"].last.currentStep
        /\ "stepCompletion" \in op'.delivered
              => completedVector(state')
                    # completedVector(obs["stepCompletion"].last)]_vars

\* C13 - Undo on log-out: after the auth component's logout, step 1 is
\* not completed in the store.
C13_LogoutRevertsCompletion ==
    op.name = "logout" => ~state.steps[1].completed

\* the steps of the handlers that run when a service call has settled
SettledHandlers == {"validateExportData", "authenticate",
                    "progressService.startMigration"}

\* C20 - Controllers record service failures: when a service call of a
\* step controller has failed, the failure is among the errors or the
\* warnings of the controller's step in the store.
C20_FailuresRecorded ==
    [][(op'.name \in SettledHandlers /\ op'.msg # NoFailure)
        => \/ includes(state'.steps[op'.idx].errors, op'.msg)
           \/ includes(state'.steps[op'.idx].warnings, op'.msg)]_vars

\* C14 - (as claimed) resetState commits on every call, also on a state
\* that equals the initial state already.
C14_ResetCommitsAlways ==
    [][op'.name = "resetState" => op'.committed]_vars

\* C14 - (amended) resetState clears the cache on every call, and commits
\* exactly when the JSON text of the current state differs from that of
\* the initial state: then the state becomes the initial state, otherwise
\* nothing is committed and the state stays as it is.
C14_ResetCommitsIfChanged ==
    [][op'.name = "resetState" =>
        /\ stepDataCache' = [i \in 0..NumSteps |-> NoEntry]
        /\ op'.committed
              <=> JSONstringifyState(state) # JSONstringifyState(getInitialState)
        /\ IF op'.committed THEN state' = getInitialState
           ELSE state' = state /\ op'.delivered = {}]_vars

\* resetState was called on a store in its initial state and committed
\* nothing
C14_Witness ==
    /\ op.name = "resetState" /\ ~op.committed
    /\ state = getInitialState

\* C15 - previousStep lowers currentStep by exactly one whenever it is
\* above 0, whatever steps are completed, and changes nothing else of the
\* state; at 0 it changes nothing and nothing reaches an observer.
C15_RetreatByOne ==
    [][op'.name = "previousStep" =>
        IF state.currentStep > 0
        THEN state' = [state EXCEPT !.currentStep = state.currentStep - 1]
        ELSE /\ state' = state /\ obs' = obs
             /\ ~op'.committed /\ op'.delivered = {} /\ received' = <<>>]_vars

\* previousStep went back from step 1, which was not completed, and the
\* observer was told
C15_Witness ==
    /\ op.name = "previousStep" /\ op.committed
    /\ state.currentStep = 0
    /\ ~state.steps[1].completed
    /\ "stepper" \in op.delivered

\* C16 - completeStep(i), 0 <= i < 5, sets steps[i].completed and nothing
\* else; on a step completed already it commits nothing, changes nothing
\* and nothing reaches an observer, so two calls in a row do what one does.
C16_CompleteIdempotent ==
    [][(op'.name = "completeStep" /\ op'.idx \in StepIndex) =>
        IF state.steps[op'.idx].completed
        THEN /\ state' = state /\ obs' = obs
             /\ ~op'.committed /\ op'.delivered = {} /\ received' = <<>>
        ELSE /\ state' = [state EXCEPT !.steps[op'.idx].completed = TRUE]
             /\ op'.committed]_vars

\* completeStep was called on a completed step, an observer watching
C16_Witness ==
    /\ op.name = "completeStep" /\ ~op.committed
    /\ op.idx \in StepIndex
    /\ state.steps[op.idx].completed
    /\ obs["stepper"].subscribed

\* C17 - updateStepData(i, X), 0 <= i < 5, replaces the data of step i by
\* X: afterwards steps[i].data equals X, and nothing else of the state has
\* changed.
C17_DataReplaced ==
    [][(op'.name = "updateStepData" /\ op'.idx \in StepIndex) =>
        /\ DeepEqual(state'.steps[op'.idx].data, op'.data)
        /\ [state' EXCEPT !.steps[op'.idx].data = Null]
              = [state EXCEPT !.steps[op'.idx].data = Null]]_vars

\* C18 - In every reachable state steps has exactly the five entries
\* content-upload, bluesky-auth, migration-config, migration-execution,
\* completion, in this order, whatever index the operations were given.
C18_FiveSteps ==
    /\ DOMAIN state.steps = StepIndex
    /\ \A i \in StepIndex : state.steps[i].id = StepIds[i + 1]

\* completeStep was given the index past the last step
C18_Witness ==
    /\ op.name = "completeStep"
    /\ op.idx \notin StepIndex

\* list a is the beginning of list b
IsPrefix(a, b) == Len(a) <= Len(b) /\ SubSeq(b, 1, Len(a)) = a

\* C19 - Errors and warnings are append-only except on reset: every call
\* but resetState leaves each step's errors (warnings) a prefix of what
\* they are afterwards.
C19_AppendOnly ==
    [][op'.name # "resetState" =>
        \A i \in StepIndex :
            /\ IsPrefix(state.steps[i].errors, state'.steps[i].errors)
            /\ IsPrefix(state.steps[i].warnings, state'.steps[i].warnings)]_vars

\* a step with two errors and a warning on record was completed, and
\* they are still there
C19_Witness ==
    /\ op.name = "completeStep" /\ op.committed
    /\ Len(state.steps[op.idx].errors) = 2
    /\ state.steps[op.idx].warnings # <<>>

\* C21 - Credential rejection blocks the completion of the auth step:
\* the submit and the handling of an authenticate that returned false or
\* rejected commit nothing and leave the state and the cache as they are
\* (so steps[1].completed, steps[1].data and currentStep as well).
C21_RejectionBlocksCompletion ==
    [][(\/ op'.name = "onSubmit"
        \/ op'.name = "authenticate" /\ op'.msg # NoFailure)
        => /\ state' = state
           /\ stepDataCache' = stepDataCache
           /\ ~op'.committed]_vars

\* authenticate rejected at the open auth step; the failure is in the
\* component's own errors
C21_Witness ==
    /\ op.name = "authenticate" /\ op.msg = "Authentication error"
    /\ state.currentStep = 1
    /\ ~state.steps[1].completed
    /\ ctl["auth"].errors = <<"Authentication error">>

\* the steps of the handlers in which a controller calls completeStep on
\* its step
CompletingHandlers == {"validateExportData", "loadAccountInfo",
                       "config.onSubmit", "progressService.startMigration"}

\* C22 - No completion over outstanding errors: when a controller calls
\* completeStep on its step, the errors of that step in the store are
\* empty.
C22_NoCompletionWithErrors ==
    [][(op'.name \in CompletingHandlers /\ op'.msg = NoFailure)
        => state.steps[op'.idx].errors = <<>>]_vars

\* C23 - Authentication gates the advance: nextStep moves from step 1 to
\* step 2 only while the auth component is authenticated.
C23_AdvanceNeedsAuthentication ==
    [][(op'.name = "nextStep" /\ state.currentStep = 1 /\ op'.committed)
        => ctl["auth"].isAuthenticated]_vars

C25_CancelStopsRun ==
    [][(op'.name = "simulatePostProcessing" /\ runs[op'.idx].cancelled)
        => /\ emitted' = <<>>
           /\ progressSubject' = progressSubject]_vars

\* C26 - Pause stops processing: between pauseMigration and the next
\* resumeMigration a run in flight emits no snapshot, and currentPost and
\* currentMedia do not advance.
C26_PauseStopsRun ==
    [][(op'.name = "simulatePostProcessing" /\ runs[op'.idx].paused)
        => /\ emitted' = <<>>
           /\ progressSubject'.currentPost = progressSubject.currentPost
           /\ progressSubject'.currentMedia = progressSubject.currentMedia]_vars

\* C27 - The import step populates the imported content: once the upload
\* component has completed its step after a successful validation, the
\* store's instagramData holds the imported posts (it is no longer the
\* empty list of the initial state).
C27_ImportPopulatesContent ==
    (/\ op.name = "validateExportData" /\ op.msg = NoFailure
     /\ state.steps[0].completed)
        => state.instagramData # getInitialState.instagramData

\* C28 - Mutate by replacement: what a snapshot of the store shows changes
\* only in a commit, that is in a new snapshot; no call changes the state
\* the store holds (and has delivered) in place.
C28_NoChangeInPlace ==
    [][JSONstringifyState(state') # JSONstringifyState(state)
        => op'.committed]_vars

\* C29 - The index one past the last step is final: nextStep never leaves
\* the state with a currentStep above 5, from a completed step below 5 it
\* moves on by one, and called at 5 it leaves the state as it is and
\* commits nothing.
C29_SentinelIsFinal ==
    [][op'.name = "nextStep" =>
        /\ state'.currentStep <= NumSteps
        /\ (state.currentStep \in StepIndex
                /\ state.steps[state.currentStep].completed)
              => state'.currentStep = state.currentStep + 1
        /\ state.currentStep = NumSteps
              => /\ state' = state
                 /\ ~op'.committed
                 /\ op'.delivered = {}]_vars

C29_Witness ==
    /\ op.name = "nextStep" /\ ~op.committed
    /\ state.currentStep = NumSteps
    /\ \A i \in StepIndex : state.steps[i].completed

\* C30 - The completion step follows the execution step: in every state
\* in which step 4 is completed, step 3 is completed.
C30_CompletionAfterExecution ==
    state.steps[4].completed => state.steps[3].completed

\* C31 - A cancelled migration does not complete the execution step: when
\* the call of startMigration that settles is one cancelMigration was
\* called on, it does not call completeStep(3), so step 3 stays as it was
\* and nothing is committed.
C31_CancelledRunDoesNotComplete ==
    [][(/\ op'.name = "progressService.startMigration"
        /\ ctl'["execution"].cancelled < ctl["execution"].cancelled)
        => /\ state'.steps[3] = state.steps[3]
           /\ ~op'.committed]_vars

\* C32 - The navigation flags of the stepper track the store: once the
\* stepper is initialised, after every call canProceed is the completed
\* flag of the store's current step and canGoBack tells that the current
\* step is not the first.
C32_NavigationTracksStore ==
    ctl[StepperComponent].variant # "none" =>
        /\ ctl[StepperComponent].canProceed =
                (IF state.currentStep \in StepIndex
                 THEN state.steps[state.currentStep].completed ELSE FALSE)
        /\ ctl[StepperComponent].canGoBack = (state.currentStep > 0)

\* C33 - The cache never suppresses a real change: updateStepData(i, X),
\* 0 <= i < 5, with X structurally different from the data of step i
\* commits and leaves X as the data of step i; and after every call an
\* entry of the cache for a step is structurally equal to that step's data.
C33_CacheNeverSuppresses ==
    [][/\ (/\ op'.name = "updateStepData" /\ op'.idx \in StepIndex
           /\ ~DeepEqual(op'.data, state.steps[op'.idx].data))
          => /\ op'.committed
             /\ DeepEqual(state'.steps[op'.idx].data, op'.data)
       /\ \A i \in StepIndex :
            stepDataCache'[i] # NoEntry
                => DeepEqual(stepDataCache'[i], state'.steps[i].data)]_vars

\* the workflow-wide fields of a state
workflowWide(st) ==
    [instagramData |-> st.instagramData, processedPosts |-> st.processedPosts,
     blueskyClient |-> st.blueskyClient, migrationConfig |-> st.migrationConfig,
     progress |-> st.progress, errors |-> st.errors]

\* C34 - Frame conditions of the store: currentStep changes only in
\* nextStep, previousStep and resetState; a completed flag only in
\* completeStep and resetState; updateStepData, updateStepProgress,
\* addStepError and addStepWarning on step i change at most the data, the
\* progress, the errors, the warnings of step i; and the workflow-wide
\* fields keep their initial values.
C34_FrameConditions ==
    [][/\ state'.currentStep # state.currentStep
            => op'.name \in {"nextStep", "previousStep", "resetState"}
       /\ completedVector(state') # completedVector(state)
            => op'.name \in {"completeStep", "resetState"}
       /\ op'.name \in {"updateStepData", "updateStepProgress",
                        "addStepError", "addStepWarning"}
            => IF op'.idx \in StepIndex
               THEN LET was == state.steps[op'.idx]
                        is == state'.steps[op'.idx]
                    IN  /\ state' = [state EXCEPT !.steps[op'.idx] = is]
                        /\ is = CASE op'.name = "updateStepData" ->
                                        [was EXCEPT !.data = is.data]
                                  [] op'.name = "updateStepProgress" ->
                                        [was EXCEPT !.progress = is.progress]
                                  [] op'.name = "addStepError" ->
                                        [was EXCEPT !.errors = is.errors]
                                  [] OTHER ->
                                        [was EXCEPT !.warnings = is.warnings]
               ELSE state' = state
       /\ workflowWide(state') = workflowWide(getInitialState)]_vars

C34_Witness ==
    /\ op.name = "updateStepProgress" /\ op.committed
    /\ state.steps[op.idx].progress = op.pct
    /\ state.steps[op.idx].completed
    /\ state.steps[op.idx].data # Null
    /\ state.steps[op.idx].errors # <<>>
    /\ state.currentStep > 0

\* C35 - Progress counters stay within their totals: every snapshot the
\* progress service emits has 0 <= currentPost <= totalPosts and
\* 0 <= currentMedia <= totalMedia.
C35_CountersWithinTotals ==
    \A k \in DOMAIN emitted :
        /\ 0 <= emitted[k].currentPost
        /\ emitted[k].currentPost <= emitted[k].totalPosts
        /\ 0 <= emitted[k].currentMedia
        /\ emitted[k].currentMedia <= emitted[k].totalMedia

\* C36 - The remaining-time estimate counts the unprocessed posts only:
\* the 'processing' snapshot for post k of n tells the time of n - k posts
\* at 2 minutes each, as '<hours>h <minutes>m'.
C36_EstimateCountsUnprocessed ==
    op.name = "simulatePostProcessing" =>
        LET m == 2 * (emitted[1].totalPosts - emitted[1].currentPost)
        IN  emitted[1].estimatedTimeRemaining =
                ToString(m \div 60) \o "h " \o ToString(m % 60) \o "m"

\* the call of startMigration in slot r has ended, with the 'completed'
\* snapshot emitted last
Resolved(r) ==
    /\ op.name = "simulatePostProcessing" /\ op.idx = r
    /\ ~runs[r].inFlight
    /\ emitted[Len(emitted)].status = "completed"

C38_StepShapedPayload ==
    [][(/\ op'.name = "updateStepData" /\ op'.idx \in StepIndex
        /\ isStepShaped(op'.data))
        => /\ member(op'.data, "data") = "StepData"
           /\ DeepEqual(state'.steps[op'.idx].data, StepData)
           /\ state'.steps[op'.idx].id = member(op'.data, "id")
           /\ state'.steps[op'.idx].completed
                = (member(op'.data, "completed") = "true")]_vars

\* C39 - filterPostsByDate(posts, start, end) returns exactly the posts
\* whose timestamp t satisfies start <= t <= end, both ends included and a
\* null end imposing no limit, in the order they had in posts, and leaves
\* posts as it was; with start > end it returns nothing.
withinRange(post, startDate, endDate) ==
    /\ startDate = Null \/ dateLE(startDate, post.timestamp)
    /\ endDate = Null \/ dateLE(post.timestamp, endDate)
C39_FilterByDate ==
    op.name = "filterPostsByDate"
        => /\ \A k \in 1..Len(op.posts) :
                  (\E j \in 1..Len(filtered) : filtered[j] = op.posts[k])
                      <=> withinRange(op.posts[k], op.startDate, op.endDate)
           /\ \A j1, j2 \in 1..Len(filtered) :
                  j1 < j2 => filtered[j1].id < filtered[j2].id
           /\ \A j \in 1..Len(filtered) :
                  \E k \in 1..Len(op.posts) : filtered[j] = op.posts[k]
           /\ instagramPosts = op.posts
           /\ (/\ op.startDate # Null /\ op.endDate # Null
               /\ op.startDate.valid /\ op.endDate.valid
               /\ op.startDate.time > op.endDate.time) => filtered = <<>>
C39_Witness ==
    /\ op.name = "filterPostsByDate"
    /\ Len(op.posts) = 2 /\ Len(filtered) = 1
    /\ op.startDate # Null /\ op.endDate # Null
    /\ filtered[1].timestamp = op.endDate
    /\ filtered[1].id = 2

=============================================================================
